---- MODULE Spec2Model ----
(***************************************************************************)
(* Model of the client-go learning programs.                               *)
(*                                                                         *)
(*   src/main.go          main, GetResources, GetResourcesByJq,            *)
(*                        GetResourcesDynamically                          *)
(*   src/unnamed/part_000 main, GetContainerImage, GetResources            *)
(*                                                                         *)
(* The cluster API, the manifest decoder, the unstructured converter and   *)
(* the jq engine are libraries outside the repository: each call to them   *)
(* is an input, drawn from the outcomes the call can have.                 *)
(*                                                                         *)
(*   Spec       GetResourcesByJq, called with any query                    *)
(*   SpecMain   main of src/main.go                                        *)
(*   SpecImage  main of src/unnamed/part_000                               *)
(***************************************************************************)
EXTENDS Integers, Sequences, FiniteSets, TLC

\* ------------------------------------------------------------------ bounds

\* The largest number of documents a List call returns.
MaxItems == 2

\* The largest number of values one run of the query yields for one document.
MaxResults == 2

\* The largest number of "---"-separated documents in the manifest file.
MaxDocs == 2

\* ------------------------------------------------------------------ values

\* What iter.Next hands back with ok = true: a boolean, a value of another
\* type, or an error value.
Values == {"true", "false", "nonbool", "error"}

NoError == "nil"

\* A return value of GetResourcesByJq. isNil tells the nil slice from the
\* empty slice make(..., 0).
Return(nil, rs, e) == [isNil |-> nil, resources |-> rs, err |-> e]

\* ret before the function has returned.
NotReturned == Return(TRUE, <<>>, "unset")

\* One call of the cluster API: Create, Delete and Get name the resource of
\* the manifest document d; List names none (d = 0).
Call(op, d) == [op |-> op, doc |-> d]

\* One line on standard output: what is printed, and the listed item it is
\* about (0 when about none).
Line(what, item) == [what |-> what, item |-> item]

\* A document of the manifest file, told apart by what main does with it:
\* blank after TrimSpace, not decodable, or decoded with its kind.
DocKinds == {"blank", "undecodable", "Deployment", "Pod", "Service"}

\* A listed item, told apart by the first check of the image extraction that
\* it trips: spec.template.spec.containers of another type than a slice,
\* absent, an empty slice, a slice whose first entry is no map, a first
\* container whose image is no string, or has none; or an item with an image.
Shapes == {"containersNotSlice", "noContainers", "emptyContainers",
           "firstNotMap", "imageNotString", "noImage", "image"}

\* All sequences over S of length at most n.
SeqUpTo(S, n) == UNION {[1..m -> S] : m \in 0..n}

VARIABLES
    pc,         \* position in GetResourcesByJq ("idle" outside a call)
    jq,         \* the query string handed in: "wellformed" or "malformed"
    items,      \* the listed documents, named by their place in the listing
    idx,        \* the range loop's position in items
    resources,  \* the slice the matches are appended to
    yielded,    \* per document, the values iter.Next has handed back so far
    converted,  \* the documents FromUnstructured has been called on
    diag,       \* the number of "Query returned non-boolean value" lines printed
    ret,        \* what the function returned (NotReturned before it has)
    calls,      \* the cluster API calls made so far
    prog,       \* the program that runs: "main.go" or "part_000"
    mpc,        \* position in main ("idle" when main does not run)
    manifest,   \* yamlDocs: the documents of the manifest file
    doc,        \* the place in manifest of the document main handles
    list,       \* list.Items of the image inspection
    k,          \* the image inspection's position in list
    out         \* the lines printed while handling the current document

jqVars == <<pc, jq, items, idx, resources, yielded, converted, diag, ret>>

mainVars == <<prog, mpc, manifest, doc, list, k, out>>

vars == <<jqVars, calls, mainVars>>

\* ------------------------------------------------------- GetResourcesByJq

NoYield == [i \in 1..MaxItems |-> <<>>]

\* The locals of GetResourcesByJq outside a call.
JqIdle ==
    /\ pc = "idle"
    /\ jq = "wellformed"
    /\ items = <<>>
    /\ idx = 0
    /\ resources = <<>>
    /\ yielded = NoYield
    /\ converted = {}
    /\ diag = 0
    /\ ret = NotReturned

\* src/main.go:181-185 - entry: resources := make([]unstructured.Unstructured, 0)
JqEntry(query) ==
    /\ pc' = "parse"
    /\ jq' = query
    /\ items' = <<>>
    /\ idx' = 0
    /\ resources' = <<>>
    /\ yielded' = NoYield
    /\ converted' = {}
    /\ diag' = 0
    /\ ret' = NotReturned

\* A call of GetResourcesByJq on its own, with any query string.
JqInit ==
    /\ pc = "parse"
    /\ jq \in {"wellformed", "malformed"}
    /\ items = <<>>
    /\ idx = 0
    /\ resources = <<>>
    /\ yielded = NoYield
    /\ converted = {}
    /\ diag = 0
    /\ ret = NotReturned
    /\ calls = <<>>
    /\ prog = "main.go"
    /\ mpc = "idle"
    /\ manifest = <<>>
    /\ doc = 0
    /\ list = <<>>
    /\ k = 0
    /\ out = <<>>

\* Mutant of ReturnError: the matches found so far are returned with the error.
ReturnPartial(e) ==
    /\ ret' = Return(FALSE, resources, e)
    /\ pc' = "done"

\* return nil, err
ReturnError(e) ==
    /\ ret' = Return(TRUE, <<>>, e)
    /\ pc' = "done"

\* Mutant of Parse: the parse error is not checked.
ParseUnchecked ==
    /\ pc = "parse"
    /\ pc' = "list"
    /\ UNCHANGED <<jq, items, idx, resources, yielded, converted, diag, ret, calls>>
    /\ UNCHANGED mainVars

\* src/main.go:187-190 - query, err := gojq.Parse(jq)
Parse ==
    /\ pc = "parse"
    /\ IF jq = "malformed"
       THEN ReturnError("parse")
       ELSE pc' = "list" /\ ret' = ret
    /\ UNCHANGED <<jq, items, idx, resources, yielded, converted, diag, calls>>
    /\ UNCHANGED mainVars

\* src/main.go:229-246 and its call at 192-195: one List call, which fails or
\* hands back list.Items
GetResourcesDynamically ==
    /\ pc = "list"
    /\ calls' = Append(calls, Call("List", 0))
    /\ \/ /\ ReturnError("list")
          /\ UNCHANGED <<items, idx>>
       \/ \E n \in 0..MaxItems :
             /\ items' = [i \in 1..n |-> i]
             /\ idx' = 1
             /\ pc' = "range"
             /\ ret' = ret
    /\ UNCHANGED <<jq, resources, yielded, converted, diag>>
    /\ UNCHANGED mainVars

\* src/main.go:197-206 and 226 - the head of the range loop: past the last
\* item the function returns resources; otherwise the item is converted
\* (which may fail) and the query is run on it
RangeItems ==
    /\ pc = "range"
    /\ IF idx > Len(items)
       THEN /\ ret' = Return(FALSE, resources, NoError)
            /\ pc' = "done"
            /\ UNCHANGED converted
       ELSE /\ converted' = converted \cup {items[idx]}
            /\ \/ ReturnError("convert")
               \/ pc' = "next" /\ ret' = ret
    /\ UNCHANGED <<jq, items, idx, resources, yielded, diag, calls>>
    /\ UNCHANGED mainVars

\* src/main.go:221 - resources = append(resources, item)
Include(rs, item) == Append(rs, item)

\* Mutant of HandleResult: every boolean result includes the document.
HandleResultAnyBool(r) ==
    IF r = "error"
    THEN /\ ReturnError("eval")
         /\ UNCHANGED <<resources, diag, idx>>
    ELSE /\ pc' = "next"
         /\ ret' = ret
         /\ idx' = idx
         /\ IF r = "nonbool"
            THEN diag' = diag + 1 /\ resources' = resources
            ELSE /\ diag' = diag
                 /\ resources' = Include(resources, items[idx])

\* Mutant of HandleResult: a non-boolean result fails the call.
HandleResultStrict(r) ==
    IF r \in {"error", "nonbool"}
    THEN /\ ReturnError("eval")
         /\ UNCHANGED <<resources, diag, idx>>
    ELSE /\ pc' = "next"
         /\ ret' = ret
         /\ idx' = idx
         /\ diag' = diag
         /\ resources' = IF r = "true"
                         THEN Include(resources, items[idx])
                         ELSE resources

\* src/main.go:212-223 - what the loop body does with one result value
HandleResult(r) ==
    IF r = "error"
    THEN /\ ReturnError("eval")
         /\ UNCHANGED <<resources, diag, idx>>
    ELSE /\ pc' = "next"
         /\ ret' = ret
         /\ idx' = idx
         /\ IF r = "nonbool"
            THEN diag' = diag + 1 /\ resources' = resources
            ELSE /\ diag' = diag
                 /\ resources' = IF r = "true"
                                 THEN Include(resources, items[idx])
                                 ELSE resources

\* Mutant of IterNext: the inner loop breaks at the first true result.
IterNextShortCircuit ==
    /\ pc = "next"
    /\ \/ /\ pc' = "range"
          /\ idx' = idx + 1
          /\ UNCHANGED <<resources, yielded, diag, ret>>
       \/ /\ Len(yielded[idx]) < MaxResults
          /\ \E r \in Values :
                /\ yielded' = [yielded EXCEPT ![idx] = Append(@, r)]
                /\ IF r = "true"
                   THEN /\ resources' = Include(resources, items[idx])
                        /\ pc' = "range"
                        /\ idx' = idx + 1
                        /\ UNCHANGED <<diag, ret>>
                   ELSE HandleResult(r)
    /\ UNCHANGED <<jq, items, converted, calls>>
    /\ UNCHANGED mainVars

\* src/main.go:207-224 - one turn of the inner loop: iter.Next either ends
\* the iteration (ok = false) or hands back a value
IterNext ==
    /\ pc = "next"
    /\ \/ /\ pc' = "range"
          /\ idx' = idx + 1
          /\ UNCHANGED <<resources, yielded, diag, ret>>
       \/ /\ Len(yielded[idx]) < MaxResults
          /\ \E r \in Values :
                /\ yielded' = [yielded EXCEPT ![idx] = Append(@, r)]
                /\ HandleResult(r)
    /\ UNCHANGED <<jq, items, converted, calls>>
    /\ UNCHANGED mainVars

Next == Parse \/ GetResourcesDynamically \/ RangeItems \/ IterNext

Spec == JqInit /\ [][Next]_vars

\* -------------------------------------------------------------------- main

\* The locals of GetResourcesByJq go out of scope.
JqReset ==
    /\ pc' = "idle"
    /\ jq' = "wellformed"
    /\ items' = <<>>
    /\ idx' = 0
    /\ resources' = <<>>
    /\ yielded' = NoYield
    /\ converted' = {}
    /\ diag' = 0
    /\ ret' = NotReturned

\* main at the head of its loop over the documents of any manifest file that
\* could be read (a failed os.ReadFile panics before the loop, with no call
\* made to the cluster).
MainStart ==
    /\ JqIdle
    /\ calls = <<>>
    /\ mpc = "doc"
    /\ manifest \in SeqUpTo(DocKinds, MaxDocs)
    /\ doc = 0
    /\ list = <<>>
    /\ k = 0
    /\ out = <<>>

\* src/main.go:23-53
MainInit == prog = "main.go" /\ MainStart

\* src/unnamed/part_000:22-52
ImageInit == prog = "part_000" /\ MainStart

\* src/main.go:54-62, 164-166 (src/unnamed/part_000:53-61, 104-106) - the
\* head of the loop over yamlDocs: main returns after the last document, skips
\* a blank one, and panics on one that does not decode
NextDoc ==
    /\ mpc = "doc"
    /\ IF doc = Len(manifest)
       THEN /\ mpc' = "exit"
            /\ UNCHANGED <<doc, list, k, out, jqVars>>
       ELSE /\ doc' = doc + 1
            /\ mpc' = CASE manifest[doc + 1] = "blank" -> "doc"
                        [] manifest[doc + 1] = "undecodable" -> "panic_decode"
                        [] OTHER -> "create"
            /\ list' = <<>>
            /\ k' = 0
            /\ out' = <<>>
            /\ JqReset
    /\ UNCHANGED <<prog, manifest, calls>>

\* src/main.go:92 (src/unnamed/part_000:90) - gvk.Kind == "Deployment" ||
\* gvk.Kind == "Pod"
Inspected(kind) == kind \in {"Deployment", "Pod"}

\* What follows the image inspection: the query filter in src/main.go
\* (143-145), the Delete call in src/unnamed/part_000 (94-95).
AfterInspect == IF prog = "main.go" THEN "jq" ELSE "delete"

\* src/main.go:84-92 (src/unnamed/part_000:83-90) - resource.Create; its
\* error is logged and main goes on
Create ==
    /\ mpc = "create"
    /\ calls' = Append(calls, Call("Create", doc))
    /\ \E ok \in BOOLEAN :
          out' = IF ok THEN Append(out, Line("applied", 0)) ELSE out
    /\ mpc' = IF Inspected(manifest[doc]) THEN "inspect" ELSE AfterInspect
    /\ UNCHANGED <<prog, manifest, doc, list, k, jqVars>>

\* src/main.go:101-137 (src/unnamed/part_000:118-150) - the image extraction
\* on one listed item: the diagnostic of the first check it trips, the
\* runtime panic of containers[0] on an empty slice, or its image
ItemOutcome(shape) ==
    CASE shape = "containersNotSlice" -> "Error extracting containers slice"
      [] shape = "noContainers" -> "Containers slice not found"
      [] shape = "emptyContainers" -> "panic: index out of range"
      [] shape = "firstNotMap" -> "First item in containers slice is not a map"
      [] shape = "imageNotString" -> "Error extracting container image name"
      [] shape = "noImage" -> "Container image name field not found"
      [] shape = "image" -> "image"

Panics(outcome) == outcome = "panic: index out of range"

\* src/main.go:95-98 - resource.List of the image inspection; its error is
\* logged and main goes on
InspectList ==
    /\ mpc = "inspect"
    /\ prog = "main.go"
    /\ calls' = Append(calls, Call("List", 0))
    /\ \/ /\ mpc' = AfterInspect
          /\ UNCHANGED <<list, k>>
       \/ \E l \in SeqUpTo(Shapes, MaxItems) :
             /\ list' = l
             /\ k' = 1
             /\ mpc' = "item"
    /\ UNCHANGED <<prog, manifest, doc, out, jqVars>>

\* src/main.go:99-139 - one turn of the loop over list.Items: the image is
\* printed and the loop goes on; a diagnostic is printed and main returns
InspectItem ==
    /\ mpc = "item"
    /\ IF k > Len(list)
       THEN /\ mpc' = AfterInspect
            /\ UNCHANGED <<k, out>>
       ELSE LET outcome == ItemOutcome(list[k]) IN
            IF Panics(outcome)
            THEN /\ mpc' = "panic_index"
                 /\ UNCHANGED <<k, out>>
            ELSE /\ out' = Append(out, Line(outcome, k))
                 /\ IF outcome = "image"
                    THEN mpc' = "item" /\ k' = k + 1
                    ELSE mpc' = "exit" /\ k' = k
    /\ UNCHANGED <<prog, manifest, doc, list, calls, jqVars>>

\* src/unnamed/part_000:116-154 - the loop of GetContainerImage from item i
\* on: every path through its body returns, so the function returns at the
\* first item; past the last item it returns ""
ImageLoop(l, i) ==
    IF i > Len(l) THEN Line("", 0) ELSE Line(ItemOutcome(l[i]), i)

\* src/unnamed/part_000:109-155 and its call at 90-92 - GetContainerImage:
\* one List call, whose error is returned as text, then the loop; main
\* prints what it returns
GetContainerImage ==
    /\ mpc = "inspect"
    /\ prog = "part_000"
    /\ calls' = Append(calls, Call("List", 0))
    /\ \/ /\ out' = Append(out, Line("list error", 0))
          /\ mpc' = AfterInspect
          /\ UNCHANGED <<list, k>>
       \/ \E l \in SeqUpTo(Shapes, MaxItems) :
             /\ list' = l
             /\ k' = 1
             /\ LET returned == ImageLoop(l, 1) IN
                IF Panics(returned.what)
                THEN mpc' = "panic_index" /\ out' = out
                ELSE mpc' = AfterInspect /\ out' = Append(out, returned)
    /\ UNCHANGED <<prog, manifest, doc, jqVars>>

\* src/main.go:143-145 - the call of GetResourcesByJq with the query
\* .metadata.labels["app"] == "ginx", which parses
CallJq ==
    /\ mpc = "jq"
    /\ JqEntry("wellformed")
    /\ mpc' = "jqrun"
    /\ UNCHANGED <<prog, manifest, doc, list, k, out, calls>>

\* src/main.go:146-152 - the error, or each resource of the result, is printed
PrintJq ==
    /\ mpc = "jqrun"
    /\ pc = "done"
    /\ out' = IF ret.err # NoError
              THEN Append(out, Line("jq error", 0))
              ELSE out \o [i \in 1..Len(ret.resources) |->
                              Line("resource", ret.resources[i])]
    /\ mpc' = "delete"
    /\ UNCHANGED <<prog, manifest, doc, list, k, calls, jqVars>>

\* src/main.go:155-160 (src/unnamed/part_000:95-100) - resource.Delete; its
\* error is logged and main goes on
Delete ==
    /\ mpc = "delete"
    /\ calls' = Append(calls, Call("Delete", doc))
    /\ \E ok \in BOOLEAN :
          out' = IF ok THEN Append(out, Line("deleted", 0)) ELSE out
    /\ mpc' = "get"
    /\ UNCHANGED <<prog, manifest, doc, list, k, jqVars>>

\* src/main.go:168-179 and its call at 162 (src/unnamed/part_000:158-169,
\* 102) - GetResources: one Get call; an error that is neither NotFound nor a
\* status error panics
GetResources ==
    /\ mpc = "get"
    /\ calls' = Append(calls, Call("Get", doc))
    /\ \/ /\ mpc' = "panic_get"
          /\ out' = out
       \/ \E got \in {"not found", "Error getting", "Found"} :
             /\ out' = Append(out, Line(got, 0))
             /\ mpc' = "doc"
    /\ UNCHANGED <<prog, manifest, doc, list, k, jqVars>>

MainNext ==
    \/ NextDoc \/ Create \/ InspectList \/ InspectItem
    \/ CallJq \/ Parse \/ GetResourcesDynamically \/ RangeItems \/ IterNext
    \/ PrintJq \/ Delete \/ GetResources

SpecMain == MainInit /\ [][MainNext]_vars

ImageNext == NextDoc \/ Create \/ GetContainerImage \/ Delete \/ GetResources

SpecImage == ImageInit /\ [][ImageNext]_vars

\* ------------------------------------------------- claims: GetResourcesByJq

Returned == pc = "done"

ReturnedOk == Returned /\ ret.err = NoError

\* The places of seq that hold v.
Places(seq, v) == {p \in 1..Len(seq) : seq[p] = v}

Elements(seq) == {seq[p] : p \in 1..Len(seq)}

\* The documents for which the query has yielded boolean true.
Matched == {i \in 1..Len(items) : Places(yielded[i], "true") # {}}

\* The number of non-boolean values the query has yielded so far.
RECURSIVE NonBoolUpTo(_)
NonBoolUpTo(i) ==
    IF i = 0 THEN 0
    ELSE Cardinality(Places(yielded[i], "nonbool")) + NonBoolUpTo(i - 1)

\* C1 - the result holds each listed document at most once, also when the
\* query yields boolean true more than once for a document.
C1_AtMostOnce ==
    ReturnedOk =>
        \A i \in 1..Len(items) : Cardinality(Places(ret.resources, i)) <= 1

\* C2 - on a return without error, a listed document is in the result if and
\* only if the query yielded boolean true for it at least once; documents
\* whose results are all false, all non-boolean or empty are left out, and a
\* listing of no documents gives the empty (non-nil) result.
C2_InResultIffTrue ==
    ReturnedOk =>
        /\ ~ret.isNil
        /\ Elements(ret.resources) = Matched
        /\ (items = <<>> => ret.resources = <<>>)

\* C2's case: of two listed documents, one matched and one, whose results were
\* not true, was left out.
C2_Witness ==
    /\ ReturnedOk
    /\ Len(items) = 2
    /\ Elements(ret.resources) = {1}
    /\ yielded[2] # <<>>

\* C3 - the result is a subsequence of the listing: its elements are listed
\* documents, taken at strictly increasing places of the listing.
C3_Subsequence ==
    ReturnedOk =>
        /\ Elements(ret.resources) \subseteq Elements(items)
        /\ \A p, q \in 1..Len(ret.resources) :
              p < q => ret.resources[p] < ret.resources[q]

\* C4 - an error value among a document's results fails the whole call: the
\* error is returned with the nil result, whatever had matched before, and no
\* later document is converted or evaluated.
C4_ErrorAborts ==
    \A i \in 1..Len(items) :
        Places(yielded[i], "error") # {} =>
            /\ pc = "done"
            /\ ret = Return(TRUE, <<>>, "eval")
            /\ \A j \in 1..Len(items) :
                  j > i => yielded[j] = <<>> /\ j \notin converted

\* C4's case: the second document's evaluation fails after the first matched.
C4_Witness ==
    /\ Len(items) = 2
    /\ 1 \in Matched
    /\ resources # <<>>
    /\ Places(yielded[2], "error") # {}
    /\ Returned

\* A step in which iter.Next hands back the value v.
Yields(v) ==
    /\ pc = "next"
    /\ yielded' # yielded
    /\ yielded'[idx] = Append(yielded[idx], v)

\* C5, as a state predicate: one diagnostic per non-boolean value, no
\* document included without a true result, no abort without an error
\* value, and when every value yielded was non-boolean the call returns the
\* empty result and no error.
C5_State ==
    /\ diag = NonBoolUpTo(Len(items))
    /\ Elements(resources) \subseteq Matched
    /\ (Returned /\ ret.err = "eval" =>
           \E i \in 1..Len(items) : Places(yielded[i], "error") # {})
    /\ (/\ pc = "done"
        /\ converted = Elements(items)
        /\ \A i \in 1..Len(items) : Elements(yielded[i]) \subseteq {"nonbool"}
        /\ ret.err \notin {"parse", "list", "convert"}
        => ret = Return(FALSE, <<>>, NoError))

\* C5, as a step: a non-boolean value prints the diagnostic, includes nothing,
\* and leaves the function in the inner loop of the same document.
C5_Step ==
    Yields("nonbool") =>
        /\ diag' = diag + 1
        /\ resources' = resources
        /\ pc' = "next"
        /\ idx' = idx
        /\ ret' = ret

\* C5 - a non-boolean result value never includes a document and never aborts
\* the pass: the diagnostic is printed and the scan goes on, so a query whose
\* results are all non-boolean gives the empty result and no error.
C5_NonBooleanIgnored == [](C5_State) /\ [][C5_Step]_vars

\* C5's case: two documents, non-boolean values only, and the call returned.
C5_Witness ==
    /\ ReturnedOk
    /\ Len(items) = 2
    /\ \A i \in 1..2 : yielded[i] # <<>> /\ Elements(yielded[i]) = {"nonbool"}
    /\ diag >= 2

\* C6 - a malformed query fails the call before any document is processed:
\* the query is parsed before the listing is requested, so no List call is
\* made, nothing is converted or evaluated, and the result is nil with the
\* parse error.
C6_ParseBeforeList ==
    /\ (pc = "parse" => calls = <<>>)
    /\ (jq = "malformed" =>
           /\ calls = <<>>
           /\ converted = {}
           /\ yielded = NoYield
           /\ (pc # "parse" =>
                  pc = "done" /\ ret = Return(TRUE, <<>>, "parse")))

\* C6's case: the call with a malformed query has returned.
C6_Witness == jq = "malformed" /\ Returned

\* C8, as a state predicate: an error value that follows a true result of
\* the same document has aborted the call.
C8_State ==
    \A i \in 1..Len(items) :
        \A p \in Places(yielded[i], "true") :
            \A q \in Places(yielded[i], "error") :
                p < q => ret = Return(TRUE, <<>>, "eval")

\* C8, as a step: the inner loop is left for the next document only when
\* iter.Next reports the end, and after a true result it goes on with the
\* same document; a non-boolean value after a true one prints the diagnostic.
C8_Step ==
    /\ (pc = "next" /\ pc' = "range" => yielded' = yielded)
    /\ (Yields("true") => pc' = "next" /\ idx' = idx)
    /\ (Yields("nonbool") /\ Places(yielded[idx], "true") # {} =>
           diag' = diag + 1)

\* C8 - the filter does not short-circuit on a document's first true result:
\* it consumes the whole result sequence, so an error or a non-boolean value
\* after a true result is still acted on.
C8_NoShortCircuit == [](C8_State) /\ [][C8_Step]_vars

\* C8's case: a document yielded true and then an error, and the call failed.
C8_Witness ==
    /\ Returned
    /\ \E i \in 1..Len(items) : yielded[i] = <<"true", "error">>
    /\ ret.err = "eval"

\* ------------------------------------------------------------ claims: main

\* The Create call at place p of calls is followed by a Delete call for the
\* same resource.
DeleteFollows(p) ==
    \E q \in 1..Len(calls) : p < q /\ calls[q] = Call("Delete", calls[p].doc)

\* C7 - whenever main moves on to the next manifest document or returns,
\* every Create call it made has been followed by a Delete call for the same
\* resource name.
C7_CreateThenDelete ==
    mpc \in {"doc", "exit"} =>
        \A p \in 1..Len(calls) : calls[p].op = "Create" => DeleteFollows(p)

\* The listed items whose image was printed, in the order of printing.
ImagesReported ==
    LET lines == SelectSeq(out, LAMBDA e : e.what = "image")
    IN  [i \in 1..Len(lines) |-> lines[i].item]

\* C9 - when the image inspection of a listing of n well-formed items is
\* over, n images have been reported, one per item in list order.
C9_EveryImageReported ==
    /\ mpc = AfterInspect
    /\ Inspected(manifest[doc])
    /\ \A i \in 1..Len(list) : list[i] = "image"
    => ImagesReported = [i \in 1..Len(list) |-> i]

\* C10 - the image inspection never crashes on a listed item: it never
\* indexes the first container of an empty containers list, and every item
\* it has gone past ended with a printed image or diagnostic.
C10_InspectionNeverCrashes ==
    /\ mpc # "panic_index"
    /\ (mpc = "item" =>
           \A i \in 1..(k - 1) : \E p \in 1..Len(out) : out[p].item = i)

====
